---- MODULE Spec2Model ----
(***************************************************************************)
(* Gilded Rose inventory (python/gilded_rose_enhanced.py).                 *)
(*                                                                         *)
(* An inventory is a list of items (name, sell_in, quality).  One call of  *)
(* GildedRose.update_quality advances every item by one day with the       *)
(* strategy registered under the item's name, NormalItemStrategy when the  *)
(* name is not registered.                                                 *)
(***************************************************************************)
EXTENDS Integers, Sequences, FiniteSets

VARIABLES
    items,      \* GildedRose.items: the list of Item objects, mutated in place
    initial,    \* the items as they were constructed (Item.__init__)
    prev,       \* the items as they were when the last update_quality call began
    unclamped,  \* per item, item.quality as the last call left it just before
                \* the strategy's two closing "quality is never ..." statements
    ticks       \* number of update_quality calls made so far

vars == <<items, initial, prev, unclamped, ticks>>

----------------------------------------------------------------------------
(* Bounds of the exploration *)

MaxTicks == 3          \* update_quality calls explored
MaxSellIn == 11        \* largest sell_in an item is constructed with
SellInBelow == 1       \* items are constructed with sell_in down to -SellInBelow
QualityExcess == 3     \* items are constructed with quality from -QualityExcess
                       \* up to 50 + QualityExcess

----------------------------------------------------------------------------
(* Item *)

Item(name, sell_in, quality) ==
    [name |-> name, sell_in |-> sell_in, quality |-> quality]

AgedBrie == "Aged Brie"
Sulfuras == "Sulfuras, Hand of Ragnaros"
BackstagePasses == "Backstage passes to a TAFKAL80ETC concert"
Conjured == "Conjured"

(* The inventory of the module's example usage. *)
ExampleItems ==
    << Item(AgedBrie, 2, 0),
       Item(Sulfuras, 0, 80),
       Item(BackstagePasses, 15, 20),
       Item("Conjured Mana Cake", 3, 6),
       Item("+5 Dexterity Vest", 10, 20) >>

(* Names an item is constructed with: the four registered names, two near  *)
(* misses of registered names, and an unrelated name.                      *)
Names ==
    { AgedBrie, Sulfuras, BackstagePasses, Conjured,
      "Conjured Mana Cake", "aged brie", "+5 Dexterity Vest" }

SellIns == (0 - SellInBelow) .. MaxSellIn

Qualities == ((0 - QualityExcess) .. (50 + QualityExcess)) \cup {80}

----------------------------------------------------------------------------
(* The closing statements shared by every strategy but Sulfuras *)

(* if item.quality < 0: item.quality = 0 *)
NeverNegative(q) == IF q < 0 THEN 0 ELSE q

NoUpperClamp(q) == q

(* if item.quality > 50: item.quality = 50 *)
NeverMoreThan50(q) == IF q > 50 THEN 50 ELSE q

ClampItem(item) ==
    [item EXCEPT !.quality = NeverMoreThan50(NeverNegative(item.quality))]

----------------------------------------------------------------------------
(* NormalItemStrategy.update_quality *)

NormalItemKeepsSellIn(item) ==
    LET q1 == item.quality - 1
        s1 == item.sell_in
        q2 == IF s1 < 0 /\ q1 > 0 THEN q1 - 1 ELSE q1
    IN  Item(item.name, s1, q2)

NormalItemChecksBeforeDecrement(item) ==
    LET q1 == item.quality - 1
        s1 == item.sell_in - 1
        q2 == IF item.sell_in < 0 /\ q1 > 0 THEN q1 - 1 ELSE q1
    IN  Item(item.name, s1, q2)

NormalItemUnclamped(item) ==
    LET q1 == item.quality - 1
        s1 == item.sell_in - 1
        q2 == IF s1 < 0 /\ q1 > 0 THEN q1 - 1 ELSE q1
    IN  Item(item.name, s1, q2)

NormalItemStrategy(item) == ClampItem(NormalItemUnclamped(item))

----------------------------------------------------------------------------
(* AgedBrieStrategy.update_quality *)

AgedBrieKeepsSellIn(item) ==
    LET q1 == item.quality + 1
        s1 == item.sell_in
        q2 == IF s1 < 0 /\ q1 < 50 THEN q1 + 1 ELSE q1
    IN  Item(item.name, s1, q2)

AgedBrieSingleRate(item) ==
    LET q1 == item.quality + 1
        s1 == item.sell_in - 1
    IN  Item(item.name, s1, q1)

AgedBrieUnclamped(item) ==
    LET q1 == item.quality + 1
        s1 == item.sell_in - 1
        q2 == IF s1 < 0 /\ q1 < 50 THEN q1 + 1 ELSE q1
    IN  Item(item.name, s1, q2)

AgedBrieStrategy(item) == ClampItem(AgedBrieUnclamped(item))

----------------------------------------------------------------------------
(* SulfurasStrategy.update_quality *)

SulfurasAges(item) == Item(item.name, item.sell_in - 1, 80)

SulfurasStrategy(item) == Item(item.name, item.sell_in, 80)

----------------------------------------------------------------------------
(* BackstagePassesStrategy.update_quality *)

BackstageTiersBeforeDecrement(item) ==
    LET s1 == item.sell_in - 1
        q0 == item.quality
        q1 == IF q0 < 50 THEN q0 + 1 ELSE q0
        q2 == IF q0 < 50 /\ item.sell_in < 10 THEN q1 + 1 ELSE q1
        q3 == IF q0 < 50 /\ item.sell_in < 5 THEN q2 + 1 ELSE q2
        q4 == IF s1 < 0 THEN 0 ELSE q3
    IN  Item(item.name, s1, q4)

BackstageGatesEachIncrement(item) ==
    LET s1 == item.sell_in - 1
        q0 == item.quality
        q1 == IF q0 < 50 THEN q0 + 1 ELSE q0
        q2 == IF q1 < 50 /\ s1 < 10 THEN q1 + 1 ELSE q1
        q3 == IF q2 < 50 /\ s1 < 5 THEN q2 + 1 ELSE q2
        q4 == IF s1 < 0 THEN 0 ELSE q3
    IN  Item(item.name, s1, q4)

BackstagePassesUnclamped(item) ==
    LET s1 == item.sell_in - 1
        q0 == item.quality
        q1 == IF q0 < 50 THEN q0 + 1 ELSE q0
        q2 == IF q0 < 50 /\ s1 < 10 THEN q1 + 1 ELSE q1
        q3 == IF q0 < 50 /\ s1 < 5 THEN q2 + 1 ELSE q2
        q4 == IF s1 < 0 THEN 0 ELSE q3
    IN  Item(item.name, s1, q4)

BackstagePassesStrategy(item) == ClampItem(BackstagePassesUnclamped(item))

----------------------------------------------------------------------------
(* ConjuredItemStrategy.update_quality *)

ConjuredSingleExtra(item) ==
    LET q1 == item.quality - 2
        s1 == item.sell_in - 1
        q2 == IF s1 < 0 /\ q1 > 0 THEN q1 - 1 ELSE q1
    IN  Item(item.name, s1, q2)

ConjuredItemUnclamped(item) ==
    LET q1 == item.quality - 2
        s1 == item.sell_in - 1
        q2 == IF s1 < 0 /\ q1 > 0 THEN q1 - 2 ELSE q1
    IN  Item(item.name, s1, q2)

ConjuredItemStrategy(item) == ClampItem(ConjuredItemUnclamped(item))

----------------------------------------------------------------------------
(* GildedRose *)

(* self.strategies: registered name -> strategy *)
strategies ==
    [n \in {AgedBrie, Sulfuras, BackstagePasses, Conjured} |->
        CASE n = AgedBrie -> "AgedBrieStrategy"
          [] n = Sulfuras -> "SulfurasStrategy"
          [] n = BackstagePasses -> "BackstagePassesStrategy"
          [] n = Conjured -> "ConjuredItemStrategy"]

(* A lookup that also accepts a registered name followed by more text. *)
GetByFirstWord(name) ==
    IF name \in DOMAIN strategies THEN strategies[name]
    ELSE IF name = "Conjured Mana Cake" THEN strategies[Conjured]
    ELSE "NormalItemStrategy"

(* self.strategies.get(item.name, NormalItemStrategy()) *)
StrategyFor(name) ==
    IF name \in DOMAIN strategies THEN strategies[name]
    ELSE "NormalItemStrategy"

(* strategy.update_quality(item), stopped before the closing clamp *)
UpdateUnclamped(item) ==
    LET strategy == StrategyFor(item.name)
    IN  CASE strategy = "AgedBrieStrategy" -> AgedBrieUnclamped(item)
          [] strategy = "SulfurasStrategy" -> SulfurasStrategy(item)
          [] strategy = "BackstagePassesStrategy" -> BackstagePassesUnclamped(item)
          [] strategy = "ConjuredItemStrategy" -> ConjuredItemUnclamped(item)
          [] strategy = "NormalItemStrategy" -> NormalItemUnclamped(item)

(* strategy.update_quality(item) *)
UpdateItem(item) ==
    LET strategy == StrategyFor(item.name)
    IN  CASE strategy = "AgedBrieStrategy" -> AgedBrieStrategy(item)
          [] strategy = "SulfurasStrategy" -> SulfurasStrategy(item)
          [] strategy = "BackstagePassesStrategy" -> BackstagePassesStrategy(item)
          [] strategy = "ConjuredItemStrategy" -> ConjuredItemStrategy(item)
          [] strategy = "NormalItemStrategy" -> NormalItemStrategy(item)

(* GildedRose(items): the example inventory cut after its first k items,   *)
(* followed by one item of any name, sell_in and quality.                  *)
Init ==
    /\ \E k \in 0 .. Len(ExampleItems), n \in Names, s \in SellIns, q \in Qualities :
          items = SubSeq(ExampleItems, 1, k) \o << Item(n, s, q) >>
    /\ initial = items
    /\ prev = items
    /\ unclamped = [i \in DOMAIN items |-> items[i].quality]
    /\ ticks = 0

(* GildedRose.update_quality: for item in self.items: ... *)
UpdateQuality ==
    /\ ticks < MaxTicks
    /\ items' = [i \in DOMAIN items |-> UpdateItem(items[i])]
    /\ unclamped' = [i \in DOMAIN items |-> UpdateUnclamped(items[i]).quality]
    /\ prev' = items
    /\ ticks' = ticks + 1
    /\ UNCHANGED initial

Next == UpdateQuality

Spec == Init /\ [][Next]_vars

----------------------------------------------------------------------------
(* Vocabulary of the properties *)

(* clamp[0,50] as the specification states it *)
Clamp(x) == IF x < 0 THEN 0 ELSE IF x > 50 THEN 50 ELSE x

Called == ticks > 0

Registered == {AgedBrie, Sulfuras, BackstagePasses, Conjured}

(* The item at position i was processed by the last call: its pre-tick     *)
(* state is prev[i], its post-tick state items[i].                         *)
Ticked(i) == Called /\ i \in DOMAIN items

OutOfRange(q) == q < 0 \/ q > 50

----------------------------------------------------------------------------
(* C1: after every update_quality call, every item not named Sulfuras has  *)
(* 0 <= quality <= 50, whatever sell_in and quality (also below 0 or above *)
(* 50) it was constructed with.                                            *)
C1_QualityInRange ==
    Called => \A i \in DOMAIN items :
        items[i].name # Sulfuras =>
            items[i].quality >= 0 /\ items[i].quality <= 50

(* An item constructed out of range, of each sign, is back in range after  *)
(* a call.                                                                 *)
C1_Witness ==
    \E i \in DOMAIN items :
        /\ Ticked(i)
        /\ items[i].name # Sulfuras
        /\ OutOfRange(initial[i].quality)
        /\ OutOfRange(unclamped[i])
        /\ items[i].quality \in 0 .. 50

C3_SellInCountsDown ==
    \A i \in DOMAIN items :
        items[i].name # Sulfuras =>
            /\ items[i].sell_in = initial[i].sell_in - ticks
            /\ Called => items[i].sell_in = prev[i].sell_in - 1

(* A call on an item whose sell_in was already negative, after an earlier  *)
(* call.                                                                   *)
C3_Witness ==
    \E i \in DOMAIN items :
        /\ ticks >= 2
        /\ items[i].name # Sulfuras
        /\ prev[i].sell_in < 0
        /\ items[i].sell_in = prev[i].sell_in - 1

(* C4: the rule is selected by exact, case-sensitive match of the name     *)
(* against the four registered names; any other name (such as "Conjured    *)
(* Mana Cake" or "aged brie") gets the Ordinary rule, and every name is    *)
(* served.                                                                 *)
C4_ExactNameDispatch ==
    Called => \A i \in DOMAIN items :
        /\ prev[i].name = AgedBrie => items[i] = AgedBrieStrategy(prev[i])
        /\ prev[i].name = Sulfuras => items[i] = SulfurasStrategy(prev[i])
        /\ prev[i].name = BackstagePasses =>
               items[i] = BackstagePassesStrategy(prev[i])
        /\ prev[i].name = Conjured => items[i] = ConjuredItemStrategy(prev[i])
        /\ prev[i].name \notin Registered =>
               /\ items[i].name = prev[i].name
               /\ items[i].sell_in = prev[i].sell_in - 1
               /\ items[i].quality =
                      Clamp(prev[i].quality
                              - (IF prev[i].sell_in - 1 < 0 THEN 2 ELSE 1))

(* Both near misses were updated, each to something neither the Conjured   *)
(* nor the Aged Brie rule would have produced.                             *)
C4_Witness ==
    /\ \E i \in DOMAIN items :
          /\ Ticked(i)
          /\ prev[i].name = "Conjured Mana Cake"
          /\ items[i] # ConjuredItemStrategy(prev[i])
    /\ \E i \in DOMAIN items :
          /\ Ticked(i)
          /\ prev[i].name \in {"aged brie", "+5 Dexterity Vest"}
          /\ items[i] # AgedBrieStrategy(prev[i])
          /\ items[i].quality < prev[i].quality

(* C5: a Backstage passes item with pre-tick (s, q) ends with sell_in s-1  *)
(* and quality 0 if s-1 < 0; otherwise, if q < 50, clamp[0,50] of q+1 for  *)
(* s-1 >= 10, q+2 for 5 <= s-1 < 10, q+3 for 0 <= s-1 < 5; and 50 if       *)
(* q >= 50.  All checks use the decremented sell_in.                       *)
C5_BackstageRule ==
    Called => \A i \in DOMAIN items :
        prev[i].name = BackstagePasses =>
            LET s == prev[i].sell_in
                q == prev[i].quality
            IN  /\ items[i].sell_in = s - 1
                /\ items[i].quality =
                       IF s - 1 < 0 THEN 0
                       ELSE IF q >= 50 THEN 50
                       ELSE IF s - 1 >= 10 THEN Clamp(q + 1)
                       ELSE IF s - 1 >= 5 THEN Clamp(q + 2)
                       ELSE Clamp(q + 3)

(* The tick that starts at sell_in 10 already earns the second tier.       *)
C5_Witness ==
    \E i \in DOMAIN items :
        /\ Ticked(i)
        /\ prev[i].name = BackstagePasses
        /\ prev[i].sell_in = 10
        /\ prev[i].quality = 20
        /\ items[i].quality = 22

(* C6: an ordinary item with pre-tick (s, q) ends with sell_in s-1 and     *)
(* quality clamp[0,50](q-1) when s-1 >= 0, clamp[0,50](q-2) when s-1 < 0:  *)
(* the double decay first applies on the tick that starts with sell_in 0,  *)
(* not on the one that starts with sell_in 1.                              *)
C6_OrdinaryRule ==
    Called => \A i \in DOMAIN items :
        prev[i].name \notin Registered =>
            LET s == prev[i].sell_in
                q == prev[i].quality
            IN  /\ items[i].sell_in = s - 1
                /\ s - 1 >= 0 => items[i].quality = Clamp(q - 1)
                /\ s - 1 < 0 => items[i].quality = Clamp(q - 2)
                /\ (s = 1 /\ q \in 2 .. 50) => items[i].quality = q - 1
                /\ (s = 0 /\ q \in 2 .. 50) => items[i].quality = q - 2

(* The tick that starts at sell_in 0 takes two points. *)
C6_Witness ==
    \E i \in DOMAIN items :
        /\ Ticked(i)
        /\ prev[i].name \notin Registered
        /\ prev[i].sell_in = 0
        /\ prev[i].quality = 5
        /\ items[i].quality = 3

(* C7: an item named exactly "Conjured" with pre-tick (s, q) ends with     *)
(* sell_in s-1 and quality clamp[0,50](q-2) when s-1 >= 0,                 *)
(* clamp[0,50](q-4) when s-1 < 0.                                          *)
C7_ConjuredRule ==
    Called => \A i \in DOMAIN items :
        prev[i].name = Conjured =>
            LET s == prev[i].sell_in
                q == prev[i].quality
            IN  /\ items[i].sell_in = s - 1
                /\ s - 1 >= 0 => items[i].quality = Clamp(q - 2)
                /\ s - 1 < 0 => items[i].quality = Clamp(q - 4)

(* Past the deadline a Conjured item of quality 10 drops to 6. *)
C7_Witness ==
    \E i \in DOMAIN items :
        /\ Ticked(i)
        /\ prev[i].name = Conjured
        /\ prev[i].sell_in <= 0
        /\ prev[i].quality = 10
        /\ items[i].quality = 6

(* C8: an Aged Brie item with pre-tick (s, q) ends with sell_in s-1 and    *)
(* quality clamp[0,50](q+1) when s-1 >= 0, clamp[0,50](q+2) when s-1 < 0;  *)
(* its quality never decreases across a tick that starts within [0,50].    *)
C8_AgedBrieRule ==
    Called => \A i \in DOMAIN items :
        prev[i].name = AgedBrie =>
            LET s == prev[i].sell_in
                q == prev[i].quality
            IN  /\ items[i].sell_in = s - 1
                /\ s - 1 >= 0 => items[i].quality = Clamp(q + 1)
                /\ s - 1 < 0 => items[i].quality = Clamp(q + 2)
                /\ q \in 0 .. 50 => items[i].quality >= q

(* Past the deadline an Aged Brie of quality 10 rises to 12. *)
C8_Witness ==
    \E i \in DOMAIN items :
        /\ Ticked(i)
        /\ prev[i].name = AgedBrie
        /\ prev[i].sell_in <= 0
        /\ prev[i].quality = 10
        /\ items[i].quality = 12

(* C9 as stated: every call changes the (sell_in, quality) of every item,  *)
(* legendary items included.                                               *)
C9_EveryItemChanges ==
    Called => \A i \in DOMAIN items :
        << items[i].sell_in, items[i].quality >>
            # << prev[i].sell_in, prev[i].quality >>

(* C9 amended: every call changes the (sell_in, quality) of every item not *)
(* named Sulfuras, so none of those four rules is idempotent; the Sulfuras *)
(* rule is idempotent: a call leaves a Sulfuras item of quality 80 as it   *)
(* was, and a second call never changes what the first one left.           *)
C9_NonLegendaryChanges ==
    Called => \A i \in DOMAIN items :
        /\ items[i].name # Sulfuras =>
               << items[i].sell_in, items[i].quality >>
                   # << prev[i].sell_in, prev[i].quality >>
        /\ (items[i].name = Sulfuras /\ (prev[i].quality = 80 \/ ticks >= 2)) =>
               items[i] = prev[i]

(* A second call on a non-legendary item whose quality no longer moves,    *)
(* next to a Sulfuras item the call left alone.                            *)
C9_Witness ==
    /\ ticks >= 2
    /\ \E i \in DOMAIN items :
          /\ items[i].name # Sulfuras
          /\ items[i].quality = prev[i].quality
          /\ items[i].sell_in # prev[i].sell_in
    /\ \E i \in DOMAIN items :
          /\ items[i].name = Sulfuras
          /\ items[i] = prev[i]

(* C10 as stated: from quality 49 with all three increments applying, the  *)
(* quality before the final clamp is 53 and the clamp returns it to 50.    *)
C10_Reaches53 ==
    Called => \A i \in DOMAIN items :
        ( /\ prev[i].name = BackstagePasses
          /\ prev[i].quality = 49
          /\ prev[i].sell_in - 1 \in 0 .. 4 ) =>
            unclamped[i] = 53 /\ items[i].quality = 50

(* C10 amended: the quality < 50 gate is evaluated once, on the pre-tick   *)
(* quality; from quality 49 with all three increments applying, the        *)
(* quality before the final clamp is 52 and the clamp returns it to 50.    *)
C10_Reaches52 ==
    Called => \A i \in DOMAIN items :
        ( /\ prev[i].name = BackstagePasses
          /\ prev[i].quality = 49
          /\ prev[i].sell_in - 1 \in 0 .. 4 ) =>
            unclamped[i] = 52 /\ items[i].quality = 50

C10_Witness ==
    \E i \in DOMAIN items :
        /\ Ticked(i)
        /\ prev[i].name = BackstagePasses
        /\ prev[i].quality = 49
        /\ prev[i].sell_in = 3
        /\ unclamped[i] > 50
        /\ items[i].quality = 50

====
